---- MODULE Spec2Model ----
(***************************************************************************)
(* State-machine model of the places proxy service (src/main.go):          *)
(*   - the log sink: LogExecutionTime, proccesLog, storeExecutionLog and   *)
(*     the shutdown path of main (close(logChan); wg.Wait());              *)
(*   - the GET /all handler App.GetAll;                                    *)
(*   - fetchAllPlaces, GetSerializer and the two serializers.              *)
(***************************************************************************)
EXTENDS Integers, Sequences, FiniteSets, TLC

(* ------------------------------ bounds --------------------------------- *)
\* goroutines that call App.LogExecutionTime
NumProducers == 2
\* total number of LogExecutionTime calls in one run
MaxRecords == 3
\* capacity of LogChan in the model (make(chan ExecutionLog, 100) scaled down)
LogChanCap == 2
\* concurrent GET /all requests
NumHandlers == 2

Producers == 1..NumProducers
Handlers == 1..NumHandlers
TaskNames == {"t1", "t2"}

\* the taskName argument each calling goroutine passes
TaskNameOf(p) == IF p % 2 = 1 THEN "t1" ELSE "t2"

VARIABLES
    mainPc,      \* main: "serving" | "closing" | "waiting" | "done"
    closed,      \* LogChan has been closed
    LogChan,     \* buffered records of app.LogChan, oldest first
    Wg,          \* counter of app.Wg
    workerPc,    \* proccesLog: "notStarted" | "recv" | "store" | "storing" | "wgdone" | "exited"
    workerCur,   \* logEntry of the current loop iteration
    persisted,   \* storeExecutionLog calls, in call order
    prodPc,      \* LogExecutionTime per caller: "idle" | "action" | "add" | "send" | "panicked"
    prodRec,     \* logEntry being built by each caller
    prodAdds,    \* Wg.Add(1) calls made by the current call of each caller
    prodLate,    \* the current call of each caller began after close(logChan)
    actionRuns,  \* how often the action of the current call has run
    nextId,      \* identity given to the next record (ghost)
    pushed,      \* ids of the records whose channel send completed (ghost)
    pushOrder,   \* those ids in the order the sends completed (ghost)
    inExec       \* callers currently inside app.DB.Exec

sinkVars == <<mainPc, closed, LogChan, Wg, workerPc, workerCur, persisted,
              prodPc, prodRec, prodAdds, prodLate, actionRuns, nextId, pushed, pushOrder, inExec>>

NoRec == [id |-> 0, TaskName |-> ""]

\* the callers of storeExecutionLog: the worker and the request handlers
Worker == <<"worker", 0>>
Handler(h) == <<"handler", h>>

\* the process is alive: main has not returned
Running == mainPc # "done"

(* ----------------------------- log sink -------------------------------- *)

SinkInit ==
    /\ mainPc = "serving"
    /\ closed = FALSE
    /\ LogChan = <<>>
    /\ Wg = 0
    /\ workerPc = "notStarted"
    /\ workerCur = NoRec
    /\ persisted = <<>>
    /\ prodPc = [p \in Producers |-> "idle"]
    /\ prodRec = [p \in Producers |-> NoRec]
    /\ prodAdds = [p \in Producers |-> 0]
    /\ prodLate = [p \in Producers |-> FALSE]
    /\ actionRuns = [p \in Producers |-> 0]
    /\ nextId = 1
    /\ pushed = {}
    /\ pushOrder = <<>>
    /\ inExec = {}

\* a goroutine calls app.LogExecutionTime(taskName, action): startTime is taken
LogExecutionTime_Call(p) ==
    /\ Running
    /\ prodPc[p] = "idle"
    /\ nextId <= MaxRecords
    /\ prodRec' = [prodRec EXCEPT ![p] = [id |-> nextId, TaskName |-> TaskNameOf(p)]]
    /\ nextId' = nextId + 1
    /\ prodPc' = [prodPc EXCEPT ![p] = "action"]
    /\ prodAdds' = [prodAdds EXCEPT ![p] = 0]
    /\ prodLate' = [prodLate EXCEPT ![p] = closed]
    /\ actionRuns' = [actionRuns EXCEPT ![p] = 0]
    /\ UNCHANGED <<mainPc, closed, LogChan, Wg, workerPc, workerCur, persisted, pushed, pushOrder, inExec>>

\* action() runs to completion on the caller's goroutine; endTime, logEntry built
LogExecutionTime_Action(p) ==
    /\ Running
    /\ prodPc[p] = "action"
    /\ actionRuns' = [actionRuns EXCEPT ![p] = @ + 1]
    /\ prodPc' = [prodPc EXCEPT ![p] = "add"]
    /\ UNCHANGED <<mainPc, closed, LogChan, Wg, workerPc, workerCur, persisted,
                   prodRec, prodAdds, prodLate, nextId, pushed, pushOrder, inExec>>

\* mutant: the counter is incremented twice for one record
LogExecutionTime_Add_Twice(p) ==
    /\ Running
    /\ prodPc[p] = "add"
    /\ Wg' = Wg + 2
    /\ prodAdds' = [prodAdds EXCEPT ![p] = @ + 2]
    /\ prodPc' = [prodPc EXCEPT ![p] = "send"]
    /\ UNCHANGED <<mainPc, closed, LogChan, workerPc, workerCur, persisted,
                   prodRec, prodLate, actionRuns, nextId, pushed, pushOrder, inExec>>

\* mutant: the record is sent without being counted
LogExecutionTime_Add_Forgotten(p) ==
    /\ Running
    /\ prodPc[p] = "add"
    /\ prodPc' = [prodPc EXCEPT ![p] = "send"]
    /\ UNCHANGED <<mainPc, closed, LogChan, Wg, workerPc, workerCur, persisted,
                   prodRec, prodAdds, prodLate, actionRuns, nextId, pushed, pushOrder, inExec>>

\* app.Wg.Add(1)
LogExecutionTime_Add(p) ==
    /\ Running
    /\ prodPc[p] = "add"
    /\ Wg' = Wg + 1
    /\ prodAdds' = [prodAdds EXCEPT ![p] = @ + 1]
    /\ prodPc' = [prodPc EXCEPT ![p] = "send"]
    /\ UNCHANGED <<mainPc, closed, LogChan, workerPc, workerCur, persisted,
                   prodRec, prodLate, actionRuns, nextId, pushed, pushOrder, inExec>>

\* app.LogChan <- logEntry : panics on a closed channel, blocks while the
\* buffer is full, otherwise appends and the call returns
LogExecutionTime_Send(p) ==
    /\ Running
    /\ prodPc[p] = "send"
    /\ IF closed
         THEN /\ prodPc' = [prodPc EXCEPT ![p] = "panicked"]
              /\ UNCHANGED <<LogChan, pushed, pushOrder>>
         ELSE /\ Len(LogChan) < LogChanCap
              /\ LogChan' = Append(LogChan, prodRec[p])
              /\ pushed' = pushed \cup {prodRec[p].id}
              /\ pushOrder' = Append(pushOrder, prodRec[p].id)
              /\ prodPc' = [prodPc EXCEPT ![p] = "idle"]
    /\ UNCHANGED <<mainPc, closed, Wg, workerPc, workerCur, persisted,
                   prodRec, prodAdds, prodLate, actionRuns, nextId, inExec>>

\* go app.proccesLog(): no statement of the repository starts the worker;
\* a caller of the package has to
StartWorker ==
    /\ Running
    /\ workerPc = "notStarted"
    /\ workerPc' = "recv"
    /\ UNCHANGED <<mainPc, closed, LogChan, Wg, workerCur, persisted,
                   prodPc, prodRec, prodAdds, prodLate, actionRuns, nextId, pushed, pushOrder, inExec>>

\* mutant: the loop body goes straight to Wg.Done() and never stores the record
proccesLog_Recv_NoStore ==
    /\ Running
    /\ workerPc = "recv"
    /\ IF LogChan # <<>>
         THEN /\ workerCur' = Head(LogChan)
              /\ LogChan' = Tail(LogChan)
              /\ workerPc' = "wgdone"
         ELSE /\ closed
              /\ workerPc' = "exited"
              /\ UNCHANGED <<workerCur, LogChan>>
    /\ UNCHANGED <<mainPc, closed, Wg, persisted,
                   prodPc, prodRec, prodAdds, prodLate, actionRuns, nextId, pushed, pushOrder, inExec>>

\* mutant: the loop takes the newest buffered record instead of the oldest
proccesLog_Recv_Newest ==
    /\ Running
    /\ workerPc = "recv"
    /\ IF LogChan # <<>>
         THEN /\ workerCur' = LogChan[Len(LogChan)]
              /\ LogChan' = SubSeq(LogChan, 1, Len(LogChan) - 1)
              /\ workerPc' = "store"
         ELSE /\ closed
              /\ workerPc' = "exited"
              /\ UNCHANGED <<workerCur, LogChan>>
    /\ UNCHANGED <<mainPc, closed, Wg, persisted,
                   prodPc, prodRec, prodAdds, prodLate, actionRuns, nextId, pushed, pushOrder, inExec>>

\* for logEntry := range app.LogChan : take the oldest record, or leave the
\* loop when the channel is closed and empty
proccesLog_Recv ==
    /\ Running
    /\ workerPc = "recv"
    /\ IF LogChan # <<>>
         THEN /\ workerCur' = Head(LogChan)
              /\ LogChan' = Tail(LogChan)
              /\ workerPc' = "store"
         ELSE /\ closed
              /\ workerPc' = "exited"
              /\ UNCHANGED <<workerCur, LogChan>>
    /\ UNCHANGED <<mainPc, closed, Wg, persisted,
                   prodPc, prodRec, prodAdds, prodLate, actionRuns, nextId, pushed, pushOrder, inExec>>

\* the record of one storeExecutionLog call: the INSERT and whether it failed
storeExecutionLog(el, who, failed) ==
    [rec |-> el, by |-> who, err |-> failed]

\* err := app.storeExecutionLog(logEntry): app.DB.Exec is entered
proccesLog_Store ==
    /\ Running
    /\ workerPc = "store"
    /\ inExec' = inExec \cup {Worker}
    /\ workerPc' = "storing"
    /\ UNCHANGED <<mainPc, closed, LogChan, Wg, workerCur, persisted,
                   prodPc, prodRec, prodAdds, prodLate, actionRuns, nextId, pushed, pushOrder>>

\* mutant: after a failed insert the worker tries the same record again
proccesLog_Stored_Retry ==
    /\ Running
    /\ workerPc = "storing"
    /\ \E failed \in BOOLEAN :
          /\ persisted' = Append(persisted, storeExecutionLog(workerCur, Worker, failed))
          /\ workerPc' = IF failed THEN "store" ELSE "wgdone"
    /\ inExec' = inExec \ {Worker}
    /\ UNCHANGED <<mainPc, closed, LogChan, Wg, workerCur,
                   prodPc, prodRec, prodAdds, prodLate, actionRuns, nextId, pushed, pushOrder>>

\* app.DB.Exec returns; an error is printed only
proccesLog_Stored ==
    /\ Running
    /\ workerPc = "storing"
    /\ \E failed \in BOOLEAN :
          persisted' = Append(persisted, storeExecutionLog(workerCur, Worker, failed))
    /\ inExec' = inExec \ {Worker}
    /\ workerPc' = "wgdone"
    /\ UNCHANGED <<mainPc, closed, LogChan, Wg, workerCur,
                   prodPc, prodRec, prodAdds, prodLate, actionRuns, nextId, pushed, pushOrder>>

\* app.Wg.Done()
proccesLog_Done ==
    /\ Running
    /\ workerPc = "wgdone"
    /\ Wg' = Wg - 1
    /\ workerPc' = "recv"
    /\ UNCHANGED <<mainPc, closed, LogChan, workerCur, persisted,
                   prodPc, prodRec, prodAdds, prodLate, actionRuns, nextId, pushed, pushOrder, inExec>>

\* http.ListenAndServe returns (it only ever returns an error)
main_ServeReturns ==
    /\ mainPc = "serving"
    /\ mainPc' = "closing"
    /\ UNCHANGED <<closed, LogChan, Wg, workerPc, workerCur, persisted,
                   prodPc, prodRec, prodAdds, prodLate, actionRuns, nextId, pushed, pushOrder, inExec>>

\* close(logChan)
main_Close ==
    /\ mainPc = "closing"
    /\ closed' = TRUE
    /\ mainPc' = "waiting"
    /\ UNCHANGED <<LogChan, Wg, workerPc, workerCur, persisted,
                   prodPc, prodRec, prodAdds, prodLate, actionRuns, nextId, pushed, pushOrder, inExec>>

\* mutant: main returns without waiting for the counter
main_Wait_NoWait ==
    /\ mainPc = "waiting"
    /\ mainPc' = "done"
    /\ UNCHANGED <<closed, LogChan, Wg, workerPc, workerCur, persisted,
                   prodPc, prodRec, prodAdds, prodLate, actionRuns, nextId, pushed, pushOrder, inExec>>

\* wg.Wait() returns once the counter is zero; main returns
main_Wait ==
    /\ mainPc = "waiting"
    /\ Wg = 0
    /\ mainPc' = "done"
    /\ UNCHANGED <<closed, LogChan, Wg, workerPc, workerCur, persisted,
                   prodPc, prodRec, prodAdds, prodLate, actionRuns, nextId, pushed, pushOrder, inExec>>

(* --------------------------- fetchAllPlaces ---------------------------- *)

\* page := 210
FirstPage == 210
\* pages an upstream of the model answers
MaxPages == 3
\* places on one page
MaxPageLen == 2

Place(i, c) ==
    [Id |-> i, Title |-> "T", Slug |-> "s", Address |-> "a", Phone |-> "p",
     Subway |-> "m", IsClosed |-> c, Location |-> "l"]

\* var result T with T = Place: the zero value
ZeroPlace ==
    [Id |-> 0, Title |-> "", Slug |-> "", Address |-> "", Phone |-> "",
     Subway |-> "", IsClosed |-> FALSE, Location |-> ""]

PlaceSet == {Place(1, FALSE), Place(2, TRUE)}

SeqUpTo(S, n) == UNION {[1..k -> S] : k \in 0..n}

\* what the upstream answers for one page: a decodable body {results, next},
\* or a failure of client.Do, of io.ReadAll or of json.Unmarshal
Responses ==
    [kind : {"ok"}, results : SeqUpTo(PlaceSet, MaxPageLen), next : {"", "url"}]
        \cup [kind : {"neterr", "readerr", "badjson"}, results : {<<>>}, next : {""}]

\* a page that is followed by another one: it decodes and has a non-empty next
MiddleResponses == {r \in Responses : r.kind = "ok" /\ r.next # ""}

\* a page that ends the walk: a failure, or an empty next
LastResponses == {r \in Responses : r.kind = "ok" => r.next = ""}

\* u[i] answers page FirstPage + i - 1; every page before the last answers
\* with a non-empty next, the last one ends the walk
Upstreams(n) ==
    {Append(pre, last) : pre \in SeqUpTo(MiddleResponses, n - 1), last \in LastResponses}

ResponseFor(u, pg) == u[pg - FirstPage + 1]

\* the locals of fetchAllPlaces before the loop
FetchStart ==
    [pc |-> "do", page |-> FirstPage, allPlaces |-> <<>>, requests |-> <<>>,
     open |-> {}, deferred |-> <<>>, places |-> <<>>, err |-> ""]

\* http.NewRequest, client.Do(req), defer resp.Body.Close()
FetchDo(st, u) ==
    LET resp == ResponseFor(u, st.page)
        sent == [st EXCEPT !.requests = Append(@, st.page)]
    IN  IF resp.kind = "neterr"
          THEN [sent EXCEPT !.pc = "return", !.places = <<>>,
                            !.err = "error sending request"]
          ELSE [sent EXCEPT !.pc = "decode",
                            !.open = @ \cup {st.page},
                            !.deferred = Append(@, st.page)]

\* mutant: a page's results are put in front of the earlier pages' results
FetchDecode_Prepend(st, u) ==
    LET resp == ResponseFor(u, st.page)
    IN  CASE resp.kind = "readerr" ->
               [st EXCEPT !.pc = "return", !.places = <<>>,
                          !.err = "error reading response body"]
          [] resp.kind = "badjson" ->
               [st EXCEPT !.pc = "return", !.places = <<>>,
                          !.err = "error unmarshalling response"]
          [] OTHER ->
               LET all == resp.results \o st.allPlaces
               IN  IF resp.next = ""
                     THEN [st EXCEPT !.pc = "return", !.allPlaces = all,
                                     !.places = all, !.err = ""]
                     ELSE [st EXCEPT !.pc = "do", !.allPlaces = all,
                                     !.page = @ + 1]

\* mutant: on a read or decode error the places fetched so far are returned
FetchDecode_Partial(st, u) ==
    LET resp == ResponseFor(u, st.page)
    IN  CASE resp.kind = "readerr" ->
               [st EXCEPT !.pc = "return", !.places = st.allPlaces,
                          !.err = "error reading response body"]
          [] resp.kind = "badjson" ->
               [st EXCEPT !.pc = "return", !.places = st.allPlaces,
                          !.err = "error unmarshalling response"]
          [] OTHER ->
               LET all == st.allPlaces \o resp.results
               IN  IF resp.next = ""
                     THEN [st EXCEPT !.pc = "return", !.allPlaces = all,
                                     !.places = all, !.err = ""]
                     ELSE [st EXCEPT !.pc = "do", !.allPlaces = all,
                                     !.page = @ + 1]

\* io.ReadAll, json.Unmarshal, append, the test of result.Next, page++
FetchDecode(st, u) ==
    LET resp == ResponseFor(u, st.page)
    IN  CASE resp.kind = "readerr" ->
               [st EXCEPT !.pc = "return", !.places = <<>>,
                          !.err = "error reading response body"]
          [] resp.kind = "badjson" ->
               [st EXCEPT !.pc = "return", !.places = <<>>,
                          !.err = "error unmarshalling response"]
          [] OTHER ->
               LET all == st.allPlaces \o resp.results
               IN  IF resp.next = ""
                     THEN [st EXCEPT !.pc = "return", !.allPlaces = all,
                                     !.places = all, !.err = ""]
                     ELSE [st EXCEPT !.pc = "do", !.allPlaces = all,
                                     !.page = @ + 1]

\* the function returns: the deferred resp.Body.Close() calls run
FetchReturn(st) ==
    [st EXCEPT !.pc = "returned", !.open = @ \ {st.deferred[i] : i \in 1..Len(st.deferred)}]

FetchNext(st, u) ==
    CASE st.pc = "do" -> FetchDo(st, u)
      [] st.pc = "decode" -> FetchDecode(st, u)
      [] st.pc = "return" -> FetchReturn(st)
      [] OTHER -> st

RECURSIVE FetchRun(_, _)
\* a whole call of fetchAllPlaces against the upstream u
FetchRun(st, u) ==
    IF st.pc = "returned" THEN st ELSE FetchRun(FetchNext(st, u), u)

fetchAllPlaces(u) == FetchRun(FetchStart, u)

VARIABLES
    fUp,    \* the upstream a call of fetchAllPlaces runs against
    fst     \* the locals of that call

fetchVars == <<fUp, fst>>

FetchInit ==
    /\ fUp \in Upstreams(MaxPages)
    /\ fst = FetchStart

\* no call of fetchAllPlaces is followed step by step
FetchIdle ==
    /\ fUp = <<>>
    /\ fst = [FetchStart EXCEPT !.pc = "returned"]

fetchAllPlaces_Do ==
    /\ fst.pc = "do"
    /\ fst' = FetchDo(fst, fUp)
    /\ UNCHANGED fUp

fetchAllPlaces_Decode ==
    /\ fst.pc = "decode"
    /\ fst' = FetchDecode(fst, fUp)
    /\ UNCHANGED fUp

fetchAllPlaces_Return ==
    /\ fst.pc = "return"
    /\ fst' = FetchReturn(fst)
    /\ UNCHANGED fUp

FetchStep == fetchAllPlaces_Do \/ fetchAllPlaces_Decode \/ fetchAllPlaces_Return

(* ----------------------------- serializers ----------------------------- *)

Formats == {"json", "gob", "", "JSON", "Gob", "xml"}

NoErr == [msg |-> "", format |-> ""]

\* mutant: the format is matched without regard to case
GetSerializer_AnyCase(format) ==
    CASE format \in {"json", "JSON"} -> [ser |-> "JSONSerializer", err |-> NoErr]
      [] format \in {"gob", "Gob"} -> [ser |-> "GobSerializer", err |-> NoErr]
      [] OTHER -> [ser |-> "nil",
                   err |-> [msg |-> "unknown serialization format: %s", format |-> format]]

\* switch format { case "json": ... case "gob": ... default: fmt.Errorf(..., format) }
GetSerializer(format) ==
    CASE format = "json" -> [ser |-> "JSONSerializer", err |-> NoErr]
      [] format = "gob" -> [ser |-> "GobSerializer", err |-> NoErr]
      [] OTHER -> [ser |-> "nil",
                   err |-> [msg |-> "unknown serialization format: %s", format |-> format]]

\* a Go slice []Place: nil, or a (possibly empty) sequence
Slice(elems, isNil) == [isNil |-> isNil /\ elems = <<>>, elems |-> elems]

Slices == {Slice(e, n) : e \in SeqUpTo(PlaceSet, MaxPageLen), n \in BOOLEAN}

\* encoded bytes, by the document they spell: JSON null, a JSON array of
\* objects, a gob stream carrying one []Place value, or no bytes at all
Bytes(t, elems) == [t |-> t, elems |-> elems]

\* what Deserialize hands back: one value of type T = Place
PlaceValue(pl) == [type |-> "Place", place |-> pl, elems |-> <<>>]

\* json.Marshal(data): a nil slice is null, any other slice an array
JSONSerializer_Serialize(data) ==
    {[bytes |-> IF data.isNil THEN Bytes("null", <<>>) ELSE Bytes("array", data.elems),
      err |-> ""]}

\* var result T; json.Unmarshal(data, &result) with T = Place: null leaves the
\* zero value, an array cannot be stored into a struct
JSONSerializer_Deserialize(b) ==
    CASE b.t = "null" -> [result |-> PlaceValue(ZeroPlace), err |-> ""]
      [] b.t = "array" ->
            [result |-> PlaceValue(ZeroPlace),
             err |-> "json: cannot unmarshal array into Go value of type main.Place"]
      [] OTHER -> [result |-> PlaceValue(ZeroPlace), err |-> "invalid character"]

\* gob.NewEncoder(&buf).Encode(data); return buf.Bytes(), err : the encoder
\* refuses a message that is too big and then nothing has been written
GobSerializer_Serialize(data) ==
    {[bytes |-> Bytes("gob", data.elems), err |-> ""]}
        \cup IF data.elems # <<>>
               THEN {[bytes |-> Bytes("empty", <<>>), err |-> "gob: encoder: message too big"]}
               ELSE {}

\* var result T; gob.NewDecoder(reader).Decode(&result) with T = Place: the
\* stream carries a []Place, which does not decode into a struct
GobSerializer_Deserialize(b) ==
    CASE b.t = "gob" ->
            [result |-> PlaceValue(ZeroPlace),
             err |-> "gob: decoding into local type *main.Place, received remote type []Place"]
      [] b.t = "empty" -> [result |-> PlaceValue(ZeroPlace), err |-> "EOF"]
      [] OTHER -> [result |-> PlaceValue(ZeroPlace), err |-> "unexpected EOF"]

\* Serializer[T].Serialize through the interface value
Serialize(ser, data) ==
    IF ser = "JSONSerializer" THEN JSONSerializer_Serialize(data)
                              ELSE GobSerializer_Serialize(data)

\* Serializer[T].Deserialize through the interface value
Deserialize(ser, b) ==
    IF ser = "JSONSerializer" THEN JSONSerializer_Deserialize(b)
                              ELSE GobSerializer_Deserialize(b)

VARIABLES
    sr      \* one use of a serializer: GetSerializer, Serialize, Deserialize

serVars == <<sr>>

SerStart(format, items) ==
    [pc |-> "get", format |-> format, items |-> items, ser |-> "nil", gerr |-> NoErr,
     bytes |-> Bytes("empty", <<>>), serr |-> "", out |-> PlaceValue(ZeroPlace), derr |-> ""]

SerInit == sr \in {SerStart(f, d) : f \in Formats, d \in Slices}

\* no serializer is being exercised
SerIdle == sr = [SerStart("json", Slice(<<>>, TRUE)) EXCEPT !.pc = "idle"]

Ser_Get ==
    /\ sr.pc = "get"
    /\ LET g == GetSerializer(sr.format)
       IN  sr' = [sr EXCEPT !.ser = g.ser, !.gerr = g.err,
                            !.pc = IF g.err = NoErr THEN "serialize" ELSE "unsupported"]

Ser_Serialize ==
    /\ sr.pc = "serialize"
    /\ \E r \in Serialize(sr.ser, sr.items) :
          sr' = [sr EXCEPT !.bytes = r.bytes, !.serr = r.err,
                           !.pc = IF r.err = "" THEN "deserialize" ELSE "failed"]

Ser_Deserialize ==
    /\ sr.pc = "deserialize"
    /\ LET d == Deserialize(sr.ser, sr.bytes)
       IN  sr' = [sr EXCEPT !.out = d.result, !.derr = d.err, !.pc = "deserialized"]

SerStep == Ser_Get \/ Ser_Serialize \/ Ser_Deserialize

(* ---------------------------- GET /all --------------------------------- *)

\* the values of the format key in the request's query, in order: <<>> when
\* the parameter is absent
Queries == {<<>>, <<"">>, <<"json">>, <<"gob">>, <<"xml">>, <<"JSON">>}

\* r.URL.Query().Get("format"): the first value, "" when there is none
QueryGet(q) == IF q = <<>> THEN "" ELSE q[1]

\* the upstreams a request of the model meets
HandlerUpstreams ==
    { <<[kind |-> "ok", results |-> <<>>, next |-> ""]>>,
      <<[kind |-> "ok", results |-> <<Place(1, FALSE)>>, next |-> "url"],
        [kind |-> "ok", results |-> <<Place(2, TRUE)>>, next |-> ""]>>,
      <<[kind |-> "ok", results |-> <<Place(1, FALSE)>>, next |-> "url"],
        [kind |-> "badjson", results |-> <<>>, next |-> ""]>> }

NoResp == [written |-> FALSE, status |-> 0, body |-> Bytes("empty", <<>>)]

VARIABLES
    hs      \* the locals of each running App.GetAll call and its ResponseWriter

httpVars == <<hs>>

HandlerStart ==
    [pc |-> "idle", query |-> <<>>, places |-> <<>>, ferr |-> "", ser |-> "nil",
     gerr |-> NoErr, data |-> Bytes("empty", <<>>), serr |-> "", resp |-> NoResp,
     trace |-> <<>>]

HttpInit == hs = [h \in Handlers |-> HandlerStart]

\* no request is served
HttpIdle == hs = [h \in Handlers |-> [HandlerStart EXCEPT !.pc = "off"]]

\* a request arrives; allPlaces, err := fetchAllPlaces(); on an error the
\* handler prints it and returns
GetAll_Fetch(h) ==
    /\ mainPc = "serving"
    /\ hs[h].pc = "idle"
    /\ \E q \in Queries, u \in HandlerUpstreams :
          LET f == fetchAllPlaces(u)
          IN  hs' = [hs EXCEPT ![h] =
                       [@ EXCEPT !.query = q, !.places = f.places, !.ferr = f.err,
                                 !.trace = Append(@, "fetch"),
                                 !.pc = IF f.err # "" THEN "returned" ELSE "format"]]
    /\ UNCHANGED <<persisted, inExec>>

\* format := r.URL.Query().Get("format"); if format == "" { format = "json" };
\* serializer, err := GetSerializer[Place](format); on an error print and return
GetAll_Format(h) ==
    /\ Running
    /\ hs[h].pc = "format"
    /\ LET got == QueryGet(hs[h].query)
           format == IF got = "" THEN "json" ELSE got
           g == GetSerializer(format)
       IN  hs' = [hs EXCEPT ![h] =
                    [@ EXCEPT !.ser = g.ser, !.gerr = g.err,
                              !.pc = IF g.err # NoErr THEN "returned" ELSE "serialize"]]
    /\ UNCHANGED <<persisted, inExec>>

\* deserializedData, err := serializer.Serialize(allPlaces); an error is
\* printed and the handler goes on
GetAll_Serialize(h) ==
    /\ Running
    /\ hs[h].pc = "serialize"
    /\ \E r \in Serialize(hs[h].ser, Slice(hs[h].places, TRUE)) :
          hs' = [hs EXCEPT ![h] =
                   [@ EXCEPT !.data = r.bytes, !.serr = r.err,
                             !.trace = Append(@, "serialize"), !.pc = "store"]]
    /\ UNCHANGED <<persisted, inExec>>

\* app.storeExecutionLog(ExecutionLog{TaskName: "GetAll", ...}): app.DB.Exec
\* is entered on the handler's goroutine
GetAll_Store(h) ==
    /\ Running
    /\ hs[h].pc = "store"
    /\ inExec' = inExec \cup {Handler(h)}
    /\ hs' = [hs EXCEPT ![h] = [@ EXCEPT !.trace = Append(@, "store"), !.pc = "storing"]]
    /\ UNCHANGED persisted

\* app.DB.Exec returns; the handler drops the error
GetAll_Stored(h) ==
    /\ Running
    /\ hs[h].pc = "storing"
    /\ \E failed \in BOOLEAN :
          persisted' = Append(persisted,
                              storeExecutionLog([id |-> 0, TaskName |-> "GetAll"],
                                                Handler(h), failed))
    /\ inExec' = inExec \ {Handler(h)}
    /\ hs' = [hs EXCEPT ![h] = [@ EXCEPT !.pc = "write"]]

\* w.Write(deserializedData): the first Write sends status 200
GetAll_Write(h) ==
    /\ Running
    /\ hs[h].pc = "write"
    /\ hs' = [hs EXCEPT ![h] =
                [@ EXCEPT !.resp = [written |-> TRUE, status |-> 200, body |-> hs[h].data],
                          !.trace = Append(@, "write"), !.pc = "returned"]]
    /\ UNCHANGED <<persisted, inExec>>

HandlerStep ==
    \E h \in Handlers :
        \/ GetAll_Fetch(h)
        \/ GetAll_Format(h)
        \/ GetAll_Serialize(h)
        \/ GetAll_Store(h)
        \/ GetAll_Stored(h)
        \/ GetAll_Write(h)

\* what a handler step leaves alone in the log sink
sinkRest == <<mainPc, closed, LogChan, Wg, workerPc, workerCur,
              prodPc, prodRec, prodAdds, prodLate, actionRuns, nextId, pushed, pushOrder>>

ProducerStep ==
    \E p \in Producers :
        \/ LogExecutionTime_Call(p)
        \/ LogExecutionTime_Action(p)
        \/ LogExecutionTime_Add(p)
        \/ LogExecutionTime_Send(p)

WorkerStep ==
    \/ StartWorker
    \/ proccesLog_Recv
    \/ proccesLog_Store
    \/ proccesLog_Stored
    \/ proccesLog_Done

MainStep == main_ServeReturns \/ main_Close \/ main_Wait

vars == <<sinkVars, httpVars, fetchVars, serVars>>

notSink == <<httpVars, fetchVars, serVars>>

\* the log sink driven by callers of LogExecutionTime and a worker goroutine
Init == SinkInit /\ HttpIdle /\ FetchIdle /\ SerIdle

Next == (ProducerStep \/ WorkerStep \/ MainStep) /\ UNCHANGED notSink

Spec == Init /\ [][Next]_vars

\* the process as main wires it: the handlers of /all and the shutdown path
HttpSpecInit == SinkInit /\ HttpInit /\ FetchIdle /\ SerIdle

HttpNext ==
    \/ HandlerStep /\ UNCHANGED <<sinkRest, fetchVars, serVars>>
    \/ MainStep /\ UNCHANGED notSink

HttpSpec == HttpSpecInit /\ [][HttpNext]_vars

\* one call of fetchAllPlaces against every upstream of the bounds
FetchSpecInit == SinkInit /\ HttpIdle /\ FetchInit /\ SerIdle

FetchSpecNext == FetchStep /\ UNCHANGED <<sinkVars, httpVars, serVars>>

FetchSpec == FetchSpecInit /\ [][FetchSpecNext]_vars

\* one use of a serializer for every format and every slice of the bounds
SerSpecInit == SinkInit /\ HttpIdle /\ FetchIdle /\ SerInit

SerSpecNext == SerStep /\ UNCHANGED <<sinkVars, httpVars, fetchVars>>

SerSpec == SerSpecInit /\ [][SerSpecNext]_vars

\* the process as main starts it, with callers of LogExecutionTime: no
\* statement starts proccesLog, so no goroutine ever takes a WorkerStep.
\* Every goroutine that can run does run; ListenAndServe need never return.
MainNext == (ProducerStep \/ MainStep) /\ UNCHANGED notSink

MainSpec ==
    /\ Init
    /\ [][MainNext]_vars
    /\ \A p \in Producers :
          /\ WF_vars(LogExecutionTime_Action(p) /\ UNCHANGED notSink)
          /\ WF_vars(LogExecutionTime_Add(p) /\ UNCHANGED notSink)
          /\ WF_vars(LogExecutionTime_Send(p) /\ UNCHANGED notSink)
    /\ WF_vars(main_Close /\ UNCHANGED notSink)
    /\ WF_vars(main_Wait /\ UNCHANGED notSink)

(* ------------------------------ claims --------------------------------- *)

\* the storeExecutionLog calls the worker made for the record with this id
WorkerStores(id) ==
    {i \in 1..Len(persisted) : persisted[i].by = Worker /\ persisted[i].rec.id = id}

\* C1: when wg.Wait() has returned in main, every record whose send onto
\* LogChan completed has been passed to storeExecutionLog by the worker exactly
\* once, and the worker made no other persistence call: N records, N calls.
C1_DrainedExactlyOnce ==
    mainPc = "done" =>
        /\ \A id \in pushed : Cardinality(WorkerStores(id)) = 1
        /\ Cardinality({i \in 1..Len(persisted) : persisted[i].by = Worker})
              = Cardinality(pushed)

\* C1 witness: two records were enqueued, the queue was closed, the wait has
\* returned and both records were stored
C1_Witness ==
    /\ mainPc = "done"
    /\ closed
    /\ Cardinality(pushed) >= 2
    /\ Len(persisted) = Cardinality(pushed)

\* C2: every record pushed onto LogChan is eventually passed to
\* storeExecutionLog by the background worker, unless the queue is closed first.
C2_PushedEventuallyStored ==
    \A id \in 1..MaxRecords :
        (id \in pushed) ~> (WorkerStores(id) # {} \/ closed)

\* C3: a LogExecutionTime call that began after close(logChan) adds no record
\* to the queue, causes no persistence call and leaves the counter of app.Wg
\* as it found it (it makes no Wg.Add).
C3_LateCallLeavesNoTrace ==
    \A p \in Producers :
        prodLate[p] =>
            /\ prodRec[p].id \notin pushed
            /\ WorkerStores(prodRec[p].id) = {}
            /\ prodAdds[p] = 0

\* the storeExecutionLog calls made on the goroutine of handler h
HandlerStores(h) == {i \in 1..Len(persisted) : persisted[i].by = Handler(h)}

\* records named "GetAll" that are in the queue or were stored by the worker
QueuedGetAll ==
    {i \in 1..Len(LogChan) : LogChan[i].TaskName = "GetAll"}
        \cup {i \in 1..Len(persisted) :
                 persisted[i].by = Worker /\ persisted[i].rec.TaskName = "GetAll"}

\* C4: a GET /all request whose fetch and serialization succeeded has, when
\* its response is written, put a "GetAll" timing record on the log queue
\* (between serializing and writing), and the handler's goroutine has made no
\* storage insert itself.
C4_HandlerEnqueuesAndNeverStores ==
    \A h \in Handlers :
        (hs[h].resp.written /\ hs[h].ferr = "" /\ hs[h].serr = "") =>
            /\ hs[h].trace = <<"fetch", "serialize", "enqueue", "write">>
            /\ QueuedGetAll # {}
            /\ HandlerStores(h) = {}

\* C5: after GetSerializer(format): "json" gives the JSON serializer and no
\* error, "gob" the gob serializer and no error, and every other string gives
\* no serializer and an error carrying the requested format.
C5_GetSerializerByFormat ==
    sr.pc \notin {"idle", "get"} =>
        /\ sr.format = "json" => (sr.ser = "JSONSerializer" /\ sr.gerr = NoErr)
        /\ sr.format = "gob" => (sr.ser = "GobSerializer" /\ sr.gerr = NoErr)
        /\ sr.format \notin {"json", "gob"} =>
              (sr.ser = "nil" /\ sr.gerr.msg # "" /\ sr.gerr.format = sr.format)

\* C5 witness: a different-case spelling was refused, with the format in the error
C5_Witness ==
    /\ sr.pc = "unsupported"
    /\ sr.format = "JSON"
    /\ sr.gerr.format = "JSON"

\* C6: Deserialize applied to the bytes Serialize returned succeeds and gives
\* back a sequence equal to the input, for the JSON and the gob serializer.
C6_RoundTrip ==
    sr.pc = "deserialized" =>
        /\ sr.derr = ""
        /\ sr.out.type = "slice"
        /\ sr.out.elems = sr.items.elems

\* every page of the upstream answers and decodes
AllOk(u) == \A i \in 1..Len(u) : u[i].kind = "ok"

\* the pages FirstPage, FirstPage + 1, ... : n of them
Pages(n) == [i \in 1..n |-> FirstPage + i - 1]

RECURSIVE ConcatResults(_, _)
\* the results of the first n pages, page after page
ConcatResults(u, n) ==
    IF n = 0 THEN <<>> ELSE ConcatResults(u, n - 1) \o u[n].results

\* C7: against an upstream of k + 1 pages with no failure, where only the last
\* page has an empty next, the requests made so far are always the pages 210,
\* 211, ... in order, each once; the call goes on until it returns, and when
\* it has returned it has requested exactly the k + 1 pages and returns no
\* error and the pages' results concatenated in page order.
C7_WalksAllPagesInOrder ==
    (fUp # <<>> /\ AllOk(fUp)) =>
        /\ Len(fst.requests) <= Len(fUp)
        /\ fst.requests = SubSeq(Pages(Len(fUp)), 1, Len(fst.requests))
        /\ fst.pc # "returned" => ENABLED FetchStep
        /\ fst.pc = "returned" =>
              /\ fst.requests = Pages(Len(fUp))
              /\ fst.err = ""
              /\ fst.places = ConcatResults(fUp, Len(fUp))

\* C7 witness: three pages with places on them were walked and the call returned
C7_Witness ==
    /\ Len(fUp) = 3
    /\ AllOk(fUp)
    /\ \A i \in 1..3 : Len(fUp[i].results) = 2
    /\ fUp[1].results # fUp[2].results
    /\ fst.pc = "returned"
    /\ Len(fst.places) = 6

\* C8: when the request for the last page p of the upstream fails (network
\* error, unreadable body or malformed JSON), no page after p is ever
\* requested and no page is requested twice, and the call returns an error
\* and no places, whatever the earlier pages held.
C8_FailsFastWithoutPartialResult ==
    (fUp # <<>> /\ ~AllOk(fUp)) =>
        /\ Len(fst.requests) <= Len(fUp)
        /\ fst.requests = SubSeq(Pages(Len(fUp)), 1, Len(fst.requests))
        /\ fst.pc \in {"return", "returned"} =>
              /\ fst.err # ""
              /\ fst.places = <<>>
              /\ fst.requests = Pages(Len(fUp))

\* C8 witness: page 210 gave places, page 211 was malformed, the call returned
C8_Witness ==
    /\ Len(fUp) = 2
    /\ fUp[1].results # <<>>
    /\ fUp[2].kind = "badjson"
    /\ fst.pc = "returned"
    /\ fst.allPlaces # <<>>
    /\ fst.err # ""

\* C9: once a GET /all request has met an internal error (fetch failure,
\* unsupported format or a failing Serialize), its handler writes no response
\* body or status and records no execution log.
C9_ErrorWritesNothing ==
    \A h \in Handlers :
        (hs[h].ferr # "" \/ hs[h].gerr # NoErr \/ hs[h].serr # "") =>
            /\ ~hs[h].resp.written
            /\ HandlerStores(h) = {}

\* C10: the JSON serializer is used for a format other than "json" only when
\* the format parameter is absent; a request that supplies a value other than
\* "json" or "gob" gets the unsupported-format error and nothing is written.
C10_FallbackOnlyWhenAbsent ==
    \A h \in Handlers :
        (hs[h].pc \notin {"idle", "format"} /\ hs[h].ferr = "") =>
            /\ (hs[h].ser = "JSONSerializer" /\ QueryGet(hs[h].query) # "json")
                  => hs[h].query = <<>>
            /\ (hs[h].query # <<>> /\ QueryGet(hs[h].query) \notin {"json", "gob"})
                  => (hs[h].gerr # NoErr /\ ~hs[h].resp.written)

RECURSIVE WorkerStoredIds(_)
\* the ids of the records the worker passed to storeExecutionLog among the
\* first n persistence calls, in call order
WorkerStoredIds(n) ==
    IF n = 0 THEN <<>>
    ELSE IF persisted[n].by = Worker
           THEN Append(WorkerStoredIds(n - 1), persisted[n].rec.id)
           ELSE WorkerStoredIds(n - 1)

\* C11: the worker's storeExecutionLog calls follow the order in which the
\* sends onto LogChan completed: the stored records are always a prefix of the
\* pushed ones, in push order, also with several callers sending concurrently.
C11_StoredInPushOrder ==
    LET w == WorkerStoredIds(Len(persisted))
    IN  /\ Len(w) <= Len(pushOrder)
        /\ w = SubSeq(pushOrder, 1, Len(w))

\* C11 witness: two records were pushed in the reverse of the order in which their
\* calls began, and the worker stored both
C11_Witness ==
    /\ Len(pushOrder) >= 2
    /\ pushOrder[1] > pushOrder[2]
    /\ Len(WorkerStoredIds(Len(persisted))) >= 2

\* the records a caller has counted with Wg.Add(1)
CountedIds ==
    pushed \cup {prodRec[p].id : p \in {q \in Producers : prodPc[q] \in {"send", "panicked"}}}

\* the records for which the worker has called Wg.Done()
FinishedIds ==
    {persisted[i].rec.id : i \in {j \in 1..Len(persisted) : persisted[j].by = Worker}}
        \ (IF workerPc = "wgdone" THEN {workerCur.id} ELSE {})

\* the persistence calls of the worker that failed
FailedStores == {i \in 1..Len(persisted) : persisted[i].by = Worker /\ persisted[i].err}

\* C12: a record whose storeExecutionLog call failed is stored no second time
\* and is not put back on the queue; its Wg.Done() is pending or has been made
\* once, so that the counter is the counted records minus the finished ones
\* with the failed ones among the finished; and the worker leaves its loop
\* only when the channel is closed and empty, never because of a failure.
C12_FailedStoreDropped ==
    /\ \A i \in FailedStores :
          LET id == persisted[i].rec.id
          IN  /\ Cardinality(WorkerStores(id)) = 1
              /\ \A j \in 1..Len(LogChan) : LogChan[j].id # id
              /\ id \in FinishedIds \/ (workerPc = "wgdone" /\ workerCur.id = id)
    /\ FailedStores # {} => Wg = Cardinality(CountedIds) - Cardinality(FinishedIds)
    /\ workerPc = "exited" => (closed /\ LogChan = <<>>)

\* C12 witness: a store failed, the worker went on and stored a later record,
\* and every counted record has been finished
C12_Witness ==
    /\ \E i \in FailedStores : \E j \in (i + 1)..Len(persisted) : persisted[j].by = Worker
    /\ Cardinality(pushed) >= 2
    /\ Wg = 0
    /\ workerPc = "recv"

\* C13: in every interleaving of LogExecutionTime calls with close(logChan);
\* wg.Wait(), when the wait has returned the queue holds no record, the worker
\* holds no record it has not stored, and every record counted with Wg.Add(1)
\* has been passed to storeExecutionLog.
C13_ShutdownOnlyWhenDrained ==
    mainPc = "done" =>
        /\ LogChan = <<>>
        /\ workerPc \notin {"store", "storing"}
        /\ \A id \in CountedIds : WorkerStores(id) # {}

\* C13 witness: shutdown completed after a record was pushed and stored, while
\* another LogExecutionTime call was still under way and had not counted yet
C13_Witness ==
    /\ mainPc = "done"
    /\ pushed # {}
    /\ \E p \in Producers : prodPc[p] \in {"action", "add"}

\* C14: once http.ListenAndServe has returned, the shutdown path of main
\* finishes: the queue is closed, the buffered records are drained and
\* wg.Wait() returns.
C14_ShutdownTerminates == (mainPc = "closing") ~> (mainPc = "done")

\* C15: LogChan never holds more than its capacity, and a caller whose send
\* finds the buffer full stays blocked in the send with its record: no step
\* rejects the call or drops the record while the buffer is full.
C15_FullQueueBlocksNeverDrops ==
    [][/\ Len(LogChan') <= LogChanCap
       /\ \A p \in Producers :
             (prodPc[p] = "send" /\ Len(LogChan) = LogChanCap) =>
                 (prodPc'[p] = "send" /\ prodRec'[p] = prodRec[p])]_vars

\* the copies of the record with this id: in the queue, in the worker's hands
\* before its store, or stored by the worker
RecordCopies(id) ==
    {<<"queue", i>> : i \in {j \in 1..Len(LogChan) : LogChan[j].id = id}}
        \cup (IF workerPc \in {"store", "storing"} /\ workerCur.id = id
                THEN {<<"worker", 0>>} ELSE {})
        \cup {<<"stored", i>> : i \in WorkerStores(id)}

\* the task names the copies of the record with this id carry
RecordNames(id) ==
    {LogChan[j].TaskName : j \in {k \in 1..Len(LogChan) : LogChan[k].id = id}}
        \cup (IF workerPc \in {"store", "storing"} /\ workerCur.id = id
                THEN {workerCur.TaskName} ELSE {})
        \cup {persisted[i].rec.TaskName : i \in WorkerStores(id)}

\* C16: in a LogExecutionTime call the action has not run before it is invoked
\* and has run exactly once before the counter is touched and the record is
\* sent; when the call has returned, the action has run once, the call has
\* made exactly one Wg.Add(1), and exactly one record of the call, carrying
\* the caller's taskName, has been pushed onto LogChan.
C16_OneActionOneAddOnePush ==
    \A p \in Producers :
        LET id == prodRec[p].id
        IN  /\ prodPc[p] = "action" =>
                  (actionRuns[p] = 0 /\ prodAdds[p] = 0 /\ id \notin pushed)
            /\ prodPc[p] = "add" =>
                  (actionRuns[p] = 1 /\ prodAdds[p] = 0 /\ id \notin pushed)
            /\ prodPc[p] = "send" =>
                  (actionRuns[p] = 1 /\ prodAdds[p] = 1 /\ id \notin pushed)
            /\ (prodPc[p] = "idle" /\ id # 0) =>
                  /\ actionRuns[p] = 1
                  /\ prodAdds[p] = 1
                  /\ Cardinality({i \in 1..Len(pushOrder) : pushOrder[i] = id}) = 1
                  /\ Cardinality(RecordCopies(id)) = 1
                  /\ RecordNames(id) = {TaskNameOf(p)}

\* C16 witness: the second caller's call has returned and its record, named
\* "t2", waits in the queue behind another caller's record
C16_Witness ==
    /\ prodPc[2] = "idle"
    /\ prodRec[2].id # 0
    /\ Len(LogChan) = 2
    /\ LogChan[2] = prodRec[2]
    /\ LogChan[2].TaskName = "t2"
    /\ LogChan[1].TaskName = "t1"

\* C17: in fetchAllPlaces at most one response body is open at any moment, the
\* body of a page is closed before the next page is requested, and no body is
\* open once the function has returned.
C17_BodyClosedAfterEachPage ==
    /\ Cardinality(fst.open) <= 1
    /\ fst.pc = "do" => fst.open = {}
    /\ fst.pc = "returned" => fst.open = {}

\* C18: at no moment are two goroutines inside the storage insert
\* (app.DB.Exec of storeExecutionLog) on the shared connection.
C18_OneInsertAtATime == Cardinality(inExec) <= 1

\* C19: the counter of app.Wg is never negative, equals the number of records
\* counted with Wg.Add(1) whose Wg.Done() has not been made yet, and is never
\* smaller than the number of records in the queue.
C19_CounterIsInFlightRecords ==
    /\ Wg >= 0
    /\ FinishedIds \subseteq CountedIds
    /\ Wg = Cardinality(CountedIds \ FinishedIds)
    /\ Wg >= Len(LogChan)

\* C19 witness: three records are counted: two in the queue and one stored by
\* the worker whose Wg.Done() is still to come
C19_Witness ==
    /\ Wg = 3
    /\ Len(LogChan) = 2
    /\ workerPc = "wgdone"
    /\ WorkerStores(workerCur.id) # {}

====
